---- MODULE Spec2Model ----
(***************************************************************************)
(* LocalRiskClassifier.py: a CSV of file names is read row by row, each    *)
(* file name is sent to a local language model, the model's answer is      *)
(* parsed into three derived fields, and the row is written, flushed and   *)
(* fsynced before the next row is read.                                    *)
(*                                                                         *)
(* Text is a sequence of tokens.  The tokens are the lexical units the     *)
(* parsing code distinguishes:                                             *)
(*   "F"  the opening fence ```json       "E"  the bare fence ```          *)
(*   "{" "}" ","  JSON punctuation        "w"  one whitespace character    *)
(*   "x"  prose (text that is neither whitespace nor JSON)                 *)
(*   "q"  a JSON key with its colon, to be followed by an object or a      *)
(*        string value                  "Q"  the quote of a string value   *)
(*   "r" "c" "d" "n" "i"  a complete JSON member  "key": value             *)
(* Python values are records [t, s, l]: the type tag, the scalar's text    *)
(* and the list's elements.                                                *)
(***************************************************************************)
EXTENDS Integers, Sequences, FiniteSets, TLC

VARIABLES
    infile,          \* the input file: [exists, empty, header, rows]
    verbose,         \* args.verbose
    reasoning,       \* args.reasoning
    pc,              \* position of main()
    idx,             \* number of records the reader has yielded so far
    row,             \* the current record (dict: column name -> value)
    file_name,       \* analyze_file_name_local's file_name
    prompt,          \* analyze_file_name_local's prompt
    full_response,   \* analyze_file_name_local's full_response
    stream,          \* chunks the streamed call has still to deliver
    sent,            \* all chunks the service answers the streamed call with
    echoed,          \* chunks printed to the console by the current call
    analysis_data,   \* [ok, obj]: the dict clean_and_parse_json returned
    analysis_result, \* the dict analyze_file_name_local returned
    calls,           \* log of client.chat requests
    console,         \* the run-level messages main() has printed
    buf,             \* output bytes held in the file object's buffer
    oscache,         \* output bytes handed to the OS, not yet on disk
    disk,            \* output bytes on stable storage
    synced,          \* number of data rows whose fsync has returned
    crashed_at,      \* position of main() when the process was killed, or ""
    p_pc,            \* parsing harness: position
    p_text,          \* parsing harness: the argument of clean_and_parse_json
    p_out            \* parsing harness: [json_str, raised, obj]

vars == <<infile, verbose, reasoning, pc, idx, row, file_name, prompt, full_response,
          stream, sent, echoed, analysis_data, analysis_result, calls, console,
          buf, oscache, disk, synced, crashed_at, p_pc, p_text, p_out>>

mainVars == <<infile, verbose, reasoning, pc, idx, row, file_name, prompt, full_response,
              stream, sent, echoed, analysis_data, analysis_result, calls, console,
              buf, oscache, disk, synced, crashed_at>>

parseVars == <<p_pc, p_text, p_out>>

----------------------------------------------------------------------------
(* Bounds *)

MaxRows == 2
MaxTextLen == 5
MaxChunk == 2

----------------------------------------------------------------------------
(* Python values *)

PyStr(s) == [t |-> "str", s |-> s, l |-> <<>>]
PyInt(s) == [t |-> "int", s |-> s, l |-> <<>>]
PyList(l) == [t |-> "list", s |-> "", l |-> l]
PyNone == [t |-> "none", s |-> "", l |-> <<>>]

\* Falsy with None taken for a file name
FalsyEmptyStringOnly(v) == v.t = "str" /\ v.s = ""

\* Python truth value of a str or None: `not file_name`
Falsy(v) == v.t = "none" \/ (v.t = "str" /\ v.s = "")

Range(f) == {f[i] : i \in DOMAIN f}

Min(S) == CHOOSE m \in S : \A n \in S : m <= n
Max(S) == CHOOSE m \in S : \A n \in S : m >= n

\* dict.get(key, default)
DictGet(d, key, default) == IF key \in DOMAIN d THEN d[key] ELSE default

\* d[key] = value
DictSet(d, key, value) ==
    [k \in (DOMAIN d) \cup {key} |-> IF k = key THEN value ELSE d[k]]

EmptyDict == [k \in {} |-> PyNone]

----------------------------------------------------------------------------
(* json.loads on token text *)

MemberTokens == {"r", "c", "d", "n", "i"}

MemberKey(tok) ==
    CASE tok = "r" -> "risk_score"
      [] tok = "c" -> "classification"
      [] OTHER -> "data_type"

MemberValue(tok) ==
    CASE tok = "r" -> PyInt("9")
      [] tok = "c" -> PyStr("High Risk (Level 3)")
      [] tok = "d" -> PyList(<<PyStr("PII"), PyStr("HR")>>)
      [] tok = "n" -> PyInt("5")
      [] OTHER -> PyList(<<PyInt("1")>>)

At(s, i) == IF i \in 1..Len(s) THEN s[i] ELSE "EOF"

RECURSIVE SkipWs(_, _)
SkipWs(s, i) == IF At(s, i) = "w" THEN SkipWs(s, i + 1) ELSE i

JsonFail == [ok |-> FALSE, next |-> 0, members |-> <<>>]

RECURSIVE ParseObject(_, _)
RECURSIVE ParseMembers(_, _, _)
\* s[i] = "{": the object starting at i; members are its own members in order
ParseObject(s, i) ==
    LET j == SkipWs(s, i + 1)
    IN  IF At(s, j) = "}"
        THEN [ok |-> TRUE, next |-> j + 1, members |-> <<>>]
        ELSE ParseMembers(s, j, <<>>)

ParseMembers(s, j, acc) ==
    LET one ==
            IF At(s, j) \in MemberTokens
            THEN [ok |-> TRUE, next |-> j + 1, members |-> Append(acc, s[j])]
            ELSE IF At(s, j) = "q" /\ At(s, SkipWs(s, j + 1)) = "{"
                 THEN LET inner == ParseObject(s, SkipWs(s, j + 1))
                      IN  [ok |-> inner.ok, next |-> inner.next, members |-> acc]
            ELSE IF At(s, j) = "q" /\ At(s, SkipWs(s, j + 1)) = "Q"
                 THEN LET open == SkipWs(s, j + 1)
                          closes == {m \in (open + 1)..Len(s) : s[m] = "Q"}
                      IN  IF closes = {} THEN JsonFail
                          ELSE [ok |-> TRUE, next |-> Min(closes) + 1, members |-> acc]
                 ELSE JsonFail
        k == SkipWs(s, one.next)
    IN  IF ~one.ok THEN JsonFail
        ELSE IF At(s, k) = "}" THEN [ok |-> TRUE, next |-> k + 1, members |-> one.members]
        ELSE IF At(s, k) = "," THEN ParseMembers(s, SkipWs(s, k + 1), one.members)
        ELSE JsonFail

RECURSIVE DictOf(_)
\* a later member with the same key replaces the earlier one
DictOf(members) ==
    IF members = <<>> THEN EmptyDict
    ELSE LET last == members[Len(members)]
         IN  DictSet(DictOf(SubSeq(members, 1, Len(members) - 1)),
                     MemberKey(last), MemberValue(last))

JSONDecodeError == "Expecting value"

\* json.loads(json_str): the dict, or raised with the JSONDecodeError
json_loads(s) ==
    LET i == SkipWs(s, 1)
        o == IF At(s, i) = "{" THEN ParseObject(s, i) ELSE JsonFail
    IN  IF o.ok /\ SkipWs(s, o.next) = Len(s) + 1
        THEN [raised |-> FALSE, error |-> "", obj |-> DictOf(o.members)]
        ELSE [raised |-> TRUE, error |-> JSONDecodeError, obj |-> EmptyDict]

----------------------------------------------------------------------------
(* clean_and_parse_json *)

\* str.find / str.rfind, 0-based, -1 when absent
find(s, tok) ==
    IF \E i \in 1..Len(s) : s[i] = tok
    THEN Min({i \in 1..Len(s) : s[i] = tok}) - 1 ELSE -1
rfind(s, tok) ==
    IF \E i \in 1..Len(s) : s[i] = tok
    THEN Max({i \in 1..Len(s) : s[i] = tok}) - 1 ELSE -1

\* Python slice s[a:b] with 0-based, possibly negative a and b >= 0
Slice(s, a, b) ==
    LET lo == IF a < 0 THEN Max({0, Len(s) + a}) ELSE Min({a, Len(s)})
        hi == Min({b, Len(s)})
    IN  IF lo < hi THEN SubSeq(s, lo + 1, hi) ELSE <<>>

\* the literal ``` of the pattern matches the bare fence and the first three
\* characters of ```json
StartsFence(tok) == tok \in {"E", "F"}

\* Ends k of group 1 for the match attempt whose ```json is at i
GroupEnds(s, i) ==
    LET j == SkipWs(s, i + 1)
    IN  IF At(s, i) = "F" /\ At(s, j) = "{"
        THEN {k \in (j + 1)..Len(s) : s[k] = "}" /\ StartsFence(At(s, SkipWs(s, k + 1)))}
        ELSE {}

\* re.search(r'```json\s*({.*?})\s*```', text, re.DOTALL): leftmost start,
\* non-greedy group; [found, group1]
re_search(s) ==
    LET starts == {i \in 1..Len(s) : GroupEnds(s, i) # {}}
    IN  IF starts = {} THEN [found |-> FALSE, group1 |-> <<>>]
        ELSE LET i == Min(starts)
             IN  [found |-> TRUE,
                  group1 |-> SubSeq(s, SkipWs(s, i + 1), Min(GroupEnds(s, i)))]

\* the local json_str
json_str(text) ==
    LET match == re_search(text)
    IN  IF match.found THEN match.group1
        ELSE Slice(text, find(text, "{"), rfind(text, "}") + 1)

\* clean_and_parse_json that falls back to the brace span when the fenced
\* candidate does not parse
clean_and_parse_json_retry(text) ==
    IF json_loads(json_str(text)).raised
    THEN json_loads(Slice(text, find(text, "{"), rfind(text, "}") + 1))
    ELSE json_loads(json_str(text))

clean_and_parse_json(text) == json_loads(json_str(text))

----------------------------------------------------------------------------
(* Parsing harness: clean_and_parse_json applied to every token text *)

ParseAlphabet == {"F", "E", "{", "}", "w", "x", "q", "r"}

RECURSIVE SeqsUpTo(_, _)
SeqsUpTo(S, n) ==
    IF n = 0 THEN {<<>>}
    ELSE LET shorter == SeqsUpTo(S, n - 1)
         IN  shorter \cup {Append(s, e) : s \in {z \in shorter : Len(z) = n - 1}, e \in S}

NoOut == [json_str |-> <<>>, raised |-> FALSE, obj |-> EmptyDict]

ParseCall ==
    /\ p_pc = "call"
    /\ LET returned == clean_and_parse_json(p_text)
       IN  p_out' = [json_str |-> json_str(p_text),
                     raised |-> returned.raised,
                     obj |-> returned.obj]
    /\ p_pc' = "returned"
    /\ UNCHANGED <<p_text, mainVars>>


----------------------------------------------------------------------------
(* The input table.  A record is the list of cells csv.reader yields for a  *)
(* non-blank line; it has at least one cell and at most one per column of  *)
(* the header.                                                             *)

filename_column == "file"

Headers == {<<"file">>, <<"id">>, <<"id", "file">>, <<"file", "Risk Score">>}

CellValues(column) == IF column = "file" THEN {"", "a.txt"} ELSE {"7"}

\* the records of at most n cells under header h
RECURSIVE RecordsOf(_, _)
RecordsOf(h, n) ==
    IF n = 0 THEN {<<>>}
    ELSE LET shorter == RecordsOf(h, n - 1)
         IN  shorter \cup {Append(r, v) : r \in {z \in shorter : Len(z) = n - 1},
                                          v \in CellValues(h[n])}

InputFiles ==
    {[exists |-> FALSE, empty |-> FALSE, header |-> <<>>, rows |-> <<>>],
     [exists |-> TRUE, empty |-> TRUE, header |-> <<>>, rows |-> <<>>]}
    \cup UNION {{[exists |-> TRUE, empty |-> FALSE, header |-> h, rows |-> rs] :
                    rs \in SeqsUpTo(RecordsOf(h, Len(h)) \ {<<>>}, MaxRows)} :
                 h \in Headers}

\* csv.DictReader: the dict of one record; a column the record has no cell
\* for maps to None, a repeated column name keeps its last cell
RECURSIVE DictReaderRow(_, _, _)
DictReaderRow(fieldnames, cells, n) ==
    IF n = 0 THEN EmptyDict
    ELSE DictSet(DictReaderRow(fieldnames, cells, n - 1), fieldnames[n],
                 IF n <= Len(cells) THEN PyStr(cells[n]) ELSE PyNone)

----------------------------------------------------------------------------
(* The model service: what a call may answer *)

Responses ==
    {<<"{", "r", ",", "c", ",", "d", "}">>,
     <<"x", "F", "w", "{", "r", ",", "c", ",", "d", "}", "w", "E">>,
     <<"{", "c", "}">>,
     <<"x">>,
     <<>>,
     <<"{", "n", "}">>,
     <<"{", "r", ",", "i", "}">>,
     <<"{", "q", "Q", "F", "{", "x", "}", "E", "Q", "}">>}

InvocationErrors == {"connection refused"}

\* a text cut into chunks of n tokens
RECURSIVE Chunks(_, _)
Chunks(text, n) ==
    IF text = <<>> THEN <<>>
    ELSE IF Len(text) <= n THEN <<text>>
    ELSE <<SubSeq(text, 1, n)>> \o Chunks(SubSeq(text, n + 1, Len(text)), n)

RECURSIVE Flatten(_)
Flatten(chunks) ==
    IF chunks = <<>> THEN <<>> ELSE Head(chunks) \o Flatten(Tail(chunks))

----------------------------------------------------------------------------
(* analyze_file_name_local *)

\* the prompt, by the parts of the template that depend on the arguments
get_analysis_prompt(name, reason) ==
    [file_name |-> name.s,
     reasoning_instructions |-> reason,
     final_output_instructions |-> ~reason]

NoPrompt == [file_name |-> "", reasoning_instructions |-> FALSE,
             final_output_instructions |-> FALSE]

EmptyList == PyList(<<>>)

EmptyResult ==
    [risk_score |-> PyStr("N/A"), classification |-> PyStr("Empty Filename"),
     data_type |-> EmptyList]

\* the except branch: e is str(e)
ErrorResult(e) ==
    [risk_score |-> PyStr("Error"), classification |-> PyStr(e), data_type |-> EmptyList]

\* the returned dict built from the parsed object
ResultOf(obj) ==
    [risk_score |-> DictGet(obj, "risk_score", PyStr("Parse Error")),
     classification |-> DictGet(obj, "classification", PyStr("Parse Error")),
     data_type |-> DictGet(obj, "data_type", EmptyList)]

\* from the call's text to the returned dict
ParseAndBuild(text) ==
    LET p == clean_and_parse_json(text)
    IN  IF p.raised THEN ErrorResult(p.error) ELSE ResultOf(p.obj)

NoData == [ok |-> FALSE, obj |-> EmptyDict]
DataOf(text) ==
    LET p == clean_and_parse_json(text) IN [ok |-> ~p.raised, obj |-> p.obj]

\* FormatArg that asks for JSON in reasoning mode too
FormatAlwaysJson(reason) == "json"

\* format='json' if not reasoning else None
FormatArg(reason) == IF ~reason THEN "json" ELSE "none"


----------------------------------------------------------------------------
(* The output file.  A line is [src, cells]: src is 0 for the header and   *)
(* the record's number for a data row.  A line reaches the file as two     *)
(* fragments, so that a partially written line can be told from a whole.   *)

DerivedColumns == <<"Risk Score", "Classification", "Data Type">>

output_fieldnames(fieldnames) == fieldnames \o DerivedColumns

Frags(line) == <<[line |-> line, part |-> 1], [line |-> line, part |-> 2]>>

RECURSIVE JoinStr(_)
\* ', '.join of a list of str
JoinStr(items) ==
    IF items = <<>> THEN ""
    ELSE IF Len(items) = 1 THEN items[1].s
    ELSE items[1].s \o ", " \o JoinStr(Tail(items))

\* ', '.join(value): TypeError unless value is a list of str
Join(value) ==
    IF value.t = "list" /\ \A i \in DOMAIN value.l : value.l[i].t = "str"
    THEN [raised |-> FALSE, value |-> PyStr(JoinStr(value.l))]
    ELSE [raised |-> TRUE, value |-> PyNone]

\* the text csv.writer writes for a value
Render(v) ==
    IF v.t = "none" THEN ""
    ELSE IF v.t = "list" THEN "[" \o JoinStr(v.l) \o "]"
    ELSE v.s

\* DictWriter.writerow: one cell per output column, '' for a missing key
RowLine(src, r, fieldnames) ==
    [src |-> src,
     cells |-> [j \in 1..Len(fieldnames) |-> Render(DictGet(r, fieldnames[j], PyStr("")))]]

HeaderLine(fieldnames) == [src |-> 0, cells |-> fieldnames]

\* row['Risk Score'] = ...; row['Classification'] = ...; row['Data Type'] = ...
Merge(r, result, joined) ==
    DictSet(DictSet(DictSet(r, "Risk Score", result.risk_score),
                    "Classification", result.classification),
            "Data Type", joined)

Said(kind, columns) == [kind |-> kind, columns |-> columns]

\* closing the files on leaving the with block hands the buffer to the OS
CloseFiles ==
    /\ oscache' = oscache \o buf
    /\ buf' = <<>>
    /\ UNCHANGED <<disk, synced>>

\* ColumnMissing with the check left out
ColumnMissingNever(column, fieldnames) == FALSE

\* `filename_column not in reader.fieldnames`
ColumnMissing(column, fieldnames) == column \notin Range(fieldnames)

----------------------------------------------------------------------------
(* main *)

locals == <<row, file_name, prompt, full_response, stream, sent, echoed,
            analysis_data, analysis_result>>
args == <<infile, verbose, reasoning>>
file == <<buf, oscache, disk, synced>>

Init ==
    /\ infile \in InputFiles
    /\ verbose \in BOOLEAN
    /\ reasoning \in BOOLEAN
    /\ pc = "count"
    /\ idx = 0
    /\ row = EmptyDict
    /\ file_name = PyStr("")
    /\ prompt = NoPrompt
    /\ full_response = <<>>
    /\ stream = <<>>
    /\ sent = <<>>
    /\ echoed = <<>>
    /\ analysis_data = NoData
    /\ analysis_result = EmptyResult
    /\ calls = <<>>
    /\ console = <<>>
    /\ buf = <<>>
    /\ oscache = <<>>
    /\ disk = <<>>
    /\ synced = 0
    /\ crashed_at = ""
    /\ p_pc = "idle"
    /\ p_text = <<>>
    /\ p_out = NoOut

\* counting the lines of the input; FileNotFoundError is reported
CountRows ==
    /\ pc = "count"
    /\ IF infile.exists
       THEN /\ pc' = "open"
            /\ UNCHANGED console
       ELSE /\ console' = Append(console, Said("input not found", <<>>))
            /\ pc' = "summary"
    /\ UNCHANGED <<args, idx, locals, calls, file, crashed_at, parseVars>>

\* the with statement, the DictReader and the column check
OpenFiles ==
    /\ pc = "open"
    /\ \/ /\ infile.empty
          /\ console' = Append(console, Said("unexpected error", <<>>))
          /\ pc' = "summary"
       \/ /\ ~infile.empty
          /\ ColumnMissing(filename_column, infile.header)
          /\ console' = Append(console, Said("column not found", infile.header))
          /\ pc' = "done"
       \/ /\ ~infile.empty
          /\ ~ColumnMissing(filename_column, infile.header)
          /\ pc' = "header"
          /\ UNCHANGED console
    /\ UNCHANGED <<args, idx, locals, calls, file, crashed_at, parseVars>>

\* writer.writeheader() and the set-up before the loop
WriteHeader ==
    /\ pc = "header"
    /\ buf' = buf \o Frags(HeaderLine(output_fieldnames(infile.header)))
    /\ pc' = "loop"
    /\ UNCHANGED <<args, idx, locals, calls, console, oscache, disk, synced,
                   crashed_at, parseVars>>

\* `for row in iterator` and the file name of the record
NextRow ==
    /\ pc = "loop"
    /\ \/ /\ idx < Len(infile.rows)
          /\ idx' = idx + 1
          /\ row' = DictReaderRow(infile.header, infile.rows[idx + 1], Len(infile.header))
          /\ file_name' = DictGet(row', filename_column, PyStr(""))
          /\ pc' = "analyze"
          /\ UNCHANGED file
       \/ /\ idx = Len(infile.rows)
          /\ CloseFiles
          /\ pc' = "summary"
          /\ UNCHANGED <<idx, row, file_name>>
    /\ UNCHANGED <<args, prompt, full_response, stream, sent, echoed, analysis_data,
                   analysis_result, calls, console, crashed_at, parseVars>>


\* the request of one client.chat call
Request(streamed, format) ==
    [row |-> idx, stream |-> streamed, format |-> format,
     prompt |-> get_analysis_prompt(file_name, reasoning)]

\* `if not file_name: return {...}`
AnalyzeEmpty ==
    /\ pc = "analyze"
    /\ Falsy(file_name)
    /\ analysis_result' = EmptyResult
    /\ pc' = "merge"
    /\ UNCHANGED <<args, idx, row, file_name, prompt, full_response, stream, sent,
                   echoed, analysis_data, calls, console, file, crashed_at, parseVars>>

\* ChatBuffered with the call outside the try: its error reaches main()
ChatBufferedPropagates ==
    /\ pc = "analyze"
    /\ ~Falsy(file_name)
    /\ ~verbose
    /\ prompt' = get_analysis_prompt(file_name, reasoning)
    /\ calls' = Append(calls, Request(FALSE, FormatArg(reasoning)))
    /\ \/ /\ CloseFiles
          /\ console' = Append(console, Said("unexpected error", <<>>))
          /\ pc' = "summary"
          /\ UNCHANGED <<full_response, analysis_data, analysis_result>>
       \/ \E text \in Responses :
             /\ full_response' = text
             /\ analysis_data' = DataOf(text)
             /\ analysis_result' = ParseAndBuild(text)
             /\ pc' = "merge"
             /\ UNCHANGED <<console, file>>
    /\ UNCHANGED <<args, idx, row, file_name, stream, sent, echoed, crashed_at, parseVars>>

\* the else branch of `if verbose`: one blocking call, then parse and build
ChatBuffered ==
    /\ pc = "analyze"
    /\ ~Falsy(file_name)
    /\ ~verbose
    /\ prompt' = get_analysis_prompt(file_name, reasoning)
    /\ calls' = Append(calls, Request(FALSE, FormatArg(reasoning)))
    /\ \/ \E e \in InvocationErrors :
             /\ analysis_result' = ErrorResult(e)
             /\ UNCHANGED <<full_response, analysis_data>>
       \/ \E text \in Responses :
             /\ full_response' = text
             /\ analysis_data' = DataOf(text)
             /\ analysis_result' = ParseAndBuild(text)
    /\ pc' = "merge"
    /\ UNCHANGED <<args, idx, row, file_name, stream, sent, echoed, console, file,
                   crashed_at, parseVars>>

\* the verbose branch: client.chat(stream=True)
StartStream ==
    /\ pc = "analyze"
    /\ ~Falsy(file_name)
    /\ verbose
    /\ prompt' = get_analysis_prompt(file_name, reasoning)
    /\ calls' = Append(calls, Request(TRUE, "none"))
    /\ \/ \E e \in InvocationErrors :
             /\ analysis_result' = ErrorResult(e)
             /\ pc' = "merge"
             /\ UNCHANGED <<stream, sent>>
       \/ \E text \in Responses, n \in 1..MaxChunk :
             /\ stream' = Chunks(text, n)
             /\ sent' = Chunks(text, n)
             /\ pc' = "stream"
             /\ UNCHANGED analysis_result
    /\ UNCHANGED <<args, idx, row, file_name, full_response, echoed,
                   analysis_data, console, file, crashed_at, parseVars>>

\* one turn of `for chunk in stream`
StreamChunk ==
    /\ pc = "stream"
    /\ stream # <<>>
    /\ full_response' = full_response \o Head(stream)
    /\ echoed' = Append(echoed, Head(stream))
    /\ stream' = Tail(stream)
    /\ UNCHANGED <<args, pc, idx, row, file_name, prompt, sent, analysis_data,
                   analysis_result, calls, console, file, crashed_at, parseVars>>

\* the stream raises instead of yielding
StreamError ==
    /\ pc = "stream"
    /\ \E e \in InvocationErrors : analysis_result' = ErrorResult(e)
    /\ pc' = "merge"
    /\ UNCHANGED <<args, idx, row, file_name, prompt, full_response, stream, sent,
                   echoed, analysis_data, calls, console, file, crashed_at, parseVars>>

\* the stream is exhausted: parse and build
StreamEnd ==
    /\ pc = "stream"
    /\ stream = <<>>
    /\ analysis_data' = DataOf(full_response)
    /\ analysis_result' = ParseAndBuild(full_response)
    /\ pc' = "merge"
    /\ UNCHANGED <<args, idx, row, file_name, prompt, full_response, stream, sent,
                   echoed, calls, console, file, crashed_at, parseVars>>

\* the three assignments to row and writer.writerow(row); a TypeError of
\* join leaves the loop and is reported by `except Exception`
MergeAndWrite ==
    /\ pc = "merge"
    /\ LET joined == Join(analysis_result.data_type)
       IN  \/ /\ joined.raised
              /\ CloseFiles
              /\ console' = Append(console, Said("unexpected error", <<>>))
              /\ pc' = "summary"
              /\ row' = DictSet(DictSet(row, "Risk Score", analysis_result.risk_score),
                                "Classification", analysis_result.classification)
           \/ /\ ~joined.raised
              /\ row' = Merge(row, analysis_result, joined.value)
              /\ buf' = buf \o Frags(RowLine(idx, row', output_fieldnames(infile.header)))
              /\ pc' = "flush"
              /\ UNCHANGED <<oscache, disk, synced, console>>
    /\ prompt' = NoPrompt
    /\ full_response' = <<>>
    /\ stream' = <<>>
    /\ sent' = <<>>
    /\ echoed' = <<>>
    /\ analysis_data' = NoData
    /\ UNCHANGED <<args, idx, file_name, analysis_result, calls, crashed_at, parseVars>>

\* outfile.flush()
Flush ==
    /\ pc = "flush"
    /\ oscache' = oscache \o buf
    /\ buf' = <<>>
    /\ pc' = "fsync"
    /\ UNCHANGED <<args, idx, locals, calls, console, disk, synced, crashed_at, parseVars>>

\* Fsync that returns without forcing the data to disk
FsyncSkipped ==
    /\ pc = "fsync"
    /\ synced' = synced + 1
    /\ pc' = "loop"
    /\ UNCHANGED <<args, idx, locals, calls, console, buf, oscache, disk, crashed_at,
                   parseVars>>

\* os.fsync(outfile.fileno())
Fsync ==
    /\ pc = "fsync"
    /\ disk' = disk \o oscache
    /\ oscache' = <<>>
    /\ synced' = synced + 1
    /\ pc' = "loop"
    /\ UNCHANGED <<args, idx, locals, calls, console, buf, crashed_at, parseVars>>

\* the final print
Summary ==
    /\ pc = "summary"
    /\ console' = Append(console, Said("complete", <<>>))
    /\ pc' = "done"
    /\ UNCHANGED <<args, idx, locals, calls, file, crashed_at, parseVars>>

Running == pc \notin {"done", "crashed"}

\* the buffered file object hands part of its buffer to the OS by itself
SpillBuffer ==
    /\ Running
    /\ buf # <<>>
    /\ oscache' = Append(oscache, Head(buf))
    /\ buf' = Tail(buf)
    /\ UNCHANGED <<args, pc, idx, locals, calls, console, disk, synced, crashed_at, parseVars>>

\* the OS writes part of its cache back by itself
WriteBack ==
    /\ Running
    /\ oscache # <<>>
    /\ disk' = Append(disk, Head(oscache))
    /\ oscache' = Tail(oscache)
    /\ UNCHANGED <<args, pc, idx, locals, calls, console, buf, synced, crashed_at, parseVars>>

\* the machine stops: only what is on disk survives
Crash ==
    /\ Running
    /\ crashed_at' = pc
    /\ pc' = "crashed"
    /\ buf' = <<>>
    /\ oscache' = <<>>
    /\ row' = EmptyDict
    /\ file_name' = PyStr("")
    /\ prompt' = NoPrompt
    /\ full_response' = <<>>
    /\ stream' = <<>>
    /\ sent' = <<>>
    /\ echoed' = <<>>
    /\ analysis_data' = NoData
    /\ analysis_result' = EmptyResult
    /\ UNCHANGED <<args, idx, calls, console, disk, synced, parseVars>>

Next ==
    \/ CountRows
    \/ OpenFiles
    \/ WriteHeader
    \/ NextRow
    \/ AnalyzeEmpty
    \/ ChatBuffered
    \/ StartStream
    \/ StreamChunk
    \/ StreamError
    \/ StreamEnd
    \/ MergeAndWrite
    \/ Flush
    \/ Fsync
    \/ Summary
    \/ SpillBuffer
    \/ WriteBack
    \/ Crash

Spec == Init /\ [][Next]_vars

----------------------------------------------------------------------------
(* The parsing harness as a specification of its own *)

ParseTexts == SeqsUpTo(ParseAlphabet, MaxTextLen) \cup Responses

InitParse ==
    /\ infile = [exists |-> FALSE, empty |-> FALSE, header |-> <<>>, rows |-> <<>>]
    /\ verbose = FALSE
    /\ reasoning = FALSE
    /\ pc = "done"
    /\ idx = 0
    /\ row = EmptyDict
    /\ file_name = PyStr("")
    /\ prompt = NoPrompt
    /\ full_response = <<>>
    /\ stream = <<>>
    /\ sent = <<>>
    /\ echoed = <<>>
    /\ analysis_data = NoData
    /\ analysis_result = EmptyResult
    /\ calls = <<>>
    /\ console = <<>>
    /\ buf = <<>>
    /\ oscache = <<>>
    /\ disk = <<>>
    /\ synced = 0
    /\ crashed_at = ""
    /\ p_pc = "call"
    /\ p_text \in ParseTexts
    /\ p_out = NoOut

NextParse == ParseCall

SpecParse == InitParse /\ [][NextParse]_vars


----------------------------------------------------------------------------
(* Vocabulary of the properties *)

\* everything the run has written to the output so far, on whatever level
Output == disk \o oscache \o buf

\* fragments that make up whole lines only
Whole(frags) ==
    /\ Len(frags) % 2 = 0
    /\ \A i \in 1..(Len(frags) \div 2) :
          /\ frags[2 * i - 1].part = 1
          /\ frags[2 * i].part = 2
          /\ frags[2 * i - 1].line = frags[2 * i].line

\* the lines that are present with both fragments, in file order
LinesOf(frags) ==
    [i \in 1..(Len(frags) \div 2) |-> frags[2 * i - 1].line]

DataRows(frags) == SelectSeq(LinesOf(frags), LAMBDA ln : ln.src > 0)

UsableInput ==
    infile.exists /\ ~infile.empty /\ filename_column \in Range(infile.header)

\* position of the file name column in the header
FileColumn == CHOOSE j \in 1..Len(infile.header) : infile.header[j] = filename_column

\* record k has the empty string under the file name column, or no cell for it
EmptyOrMissing(k) ==
    \/ FileColumn > Len(infile.rows[k])
    \/ infile.rows[k][FileColumn] = ""

\* the last three cells of an output line
Derived(ln) == SubSeq(ln.cells, Len(ln.cells) - 2, Len(ln.cells))

CallsFor(k) == {i \in 1..Len(calls) : calls[i].row = k}

Kinds == {console[i].kind : i \in 1..Len(console)}

\* the run left the loop through `except Exception`
Aborted == pc \in {"summary", "done"} /\ "unexpected error" \in Kinds

----------------------------------------------------------------------------
(* C1: when the run has ended on an input whose header has the file name   *)
(* column, the output holds exactly one data row per input record, the     *)
(* i-th built from the i-th record, whatever the model answered.           *)
C1_RowCount ==
    (pc = "done" /\ UsableInput) =>
        /\ Whole(Output)
        /\ Len(DataRows(Output)) = Len(infile.rows)
        /\ \A i \in 1..Len(DataRows(Output)) : DataRows(Output)[i].src = i

DurableThrough(k) ==
    /\ Whole(disk)
    /\ Len(LinesOf(disk)) = k + 1
    /\ LinesOf(disk)[1] = HeaderLine(infile.header \o DerivedColumns)
    /\ \A i \in 1..k :
          /\ LinesOf(disk)[i + 1].src = i
          /\ Len(LinesOf(disk)[i + 1].cells) = Len(infile.header) + 3
          /\ LinesOf(disk)[i + 1].cells[FileColumn] =
                IF EmptyOrMissing(i) THEN "" ELSE infile.rows[i][FileColumn]

(* C3: from the return of row K's fsync (K >= 1) until row K+1 is written, *)
(* the disk holds exactly the header line and the K whole lines of records *)
(* 1..K, nothing is pending, and a crash between two rows keeps all of it; *)
(* row K+1 is not analysed before row K is on disk.                        *)
C3_Durability ==
    /\ (pc \in {"loop", "analyze", "stream", "merge"} /\ synced >= 1) =>
          /\ DurableThrough(synced)
          /\ buf = <<>> /\ oscache = <<>>
    /\ (pc = "loop") => idx = synced
    /\ (pc \in {"analyze", "stream", "merge"}) => idx = synced + 1
    /\ \A i \in 1..Len(calls) : calls[i].row <= synced + 1
    /\ (pc = "crashed" /\ crashed_at = "loop" /\ synced >= 1) =>
          DurableThrough(synced)

C3_Witness ==
    /\ pc = "crashed"
    /\ crashed_at = "loop"
    /\ synced = 2
    /\ calls # <<>>

(* C4: a record whose file name is empty or missing gets the result        *)
(* ("N/A", "Empty Filename", []), is written with the derived cells        *)
(* "N/A", "Empty Filename", "", and no prompt is built and no call made    *)
(* for it, under every setting of the flags.                               *)
C4_EmptyShortcut ==
    /\ (pc = "merge" /\ EmptyOrMissing(idx)) =>
          /\ analysis_result = EmptyResult
          /\ prompt = NoPrompt
          /\ CallsFor(idx) = {}
    /\ \A i \in 1..Len(DataRows(Output)) :
          LET ln == DataRows(Output)[i]
          IN  EmptyOrMissing(ln.src) =>
                 /\ Derived(ln) = <<"N/A", "Empty Filename", "">>
                 /\ CallsFor(ln.src) = {}

C4_Witness ==
    /\ pc = "loop"
    /\ idx = 2
    /\ UsableInput
    /\ FileColumn > Len(infile.rows[1])
    /\ FileColumn <= Len(infile.rows[2])
    /\ infile.rows[2][FileColumn] = ""
    /\ verbose /\ reasoning
    /\ Len(DataRows(disk)) = 2

(* C5: on an input whose header lacks the file name column no record is    *)
(* read, no call is made, nothing is written to the output, and the run    *)
(* ends having printed the header's column names.                          *)
C5_ColumnValidation ==
    (infile.exists /\ ~infile.empty /\ filename_column \notin Range(infile.header)) =>
        /\ idx = 0
        /\ calls = <<>>
        /\ Output = <<>>
        /\ pc \in {"count", "open", "done", "crashed"}
        /\ pc = "done" => console = <<Said("column not found", infile.header)>>

C5_Witness ==
    /\ pc = "done"
    /\ infile.exists /\ ~infile.empty
    /\ filename_column \notin Range(infile.header)
    /\ infile.rows # <<>>

(* C6: when a JSON object was recovered, risk_score and classification are *)
(* the object's values or "Parse Error", and data_type is the object's     *)
(* value when that is a list and the empty list otherwise.                 *)
C6_PermissiveFields ==
    (pc = "merge" /\ analysis_data.ok) =>
        LET obj == analysis_data.obj
        IN  /\ analysis_result.risk_score =
                  IF "risk_score" \in DOMAIN obj THEN obj["risk_score"]
                  ELSE PyStr("Parse Error")
            /\ analysis_result.classification =
                  IF "classification" \in DOMAIN obj THEN obj["classification"]
                  ELSE PyStr("Parse Error")
            /\ analysis_result.data_type =
                  IF "data_type" \in DOMAIN obj /\ obj["data_type"].t = "list"
                  THEN obj["data_type"] ELSE EmptyList

(* C7: a finished run has reported exactly one of: completion, input not   *)
(* found, column not found, unexpected error; completion is reported only  *)
(* when every record was processed and written.                            *)
C7_OneOutcome ==
    (pc = "done") =>
        /\ Len(console) = 1
        /\ Kinds \subseteq {"complete", "input not found", "column not found",
                            "unexpected error"}
        /\ "complete" \in Kinds =>
              /\ UsableInput
              /\ Len(DataRows(Output)) = Len(infile.rows)

(* C8: every output row carries, under each column of the input header,    *)
(* the cell read from the input record, and the three derived columns      *)
(* follow the input columns, also when the header already has a column     *)
(* named like a derived one.                                               *)
C8_PassThrough ==
    \A i \in 1..Len(LinesOf(Output)) :
        LET ln == LinesOf(Output)[i]
        IN  /\ Len(ln.cells) = Len(infile.header) + 3
            /\ ln.src = 0 => ln.cells = infile.header \o DerivedColumns
            /\ ln.src > 0 =>
                  \A j \in 1..Len(infile.header) :
                      ln.cells[j] = IF j <= Len(infile.rows[ln.src])
                                    THEN infile.rows[ln.src][j] ELSE ""

\* positions a..b of s hold whitespace only
AllWs(s, a, b) == \A n \in a..b : s[n] = "w"

\* a fenced block <<i, j, k>>: ```json at i, "{" at j, "}" at k, only
\* whitespace between ```json and "{" and between "}" and the next fence
OpensAfter(s, i) == {j \in (i + 1)..Len(s) : s[j] = "{" /\ AllWs(s, i + 1, j - 1)}

FenceAfter(s, k) == \E m \in (k + 1)..Len(s) : s[m] \in {"E", "F"} /\ AllWs(s, k + 1, m - 1)

FencedBlocks(s) ==
    {b \in (1..Len(s)) \X (1..Len(s)) \X (1..Len(s)) :
        /\ s[b[1]] = "F"
        /\ s[b[3]] = "}"
        /\ b[2] < b[3]
        /\ b[2] \in OpensAfter(s, b[1])
        /\ FenceAfter(s, b[3])}

\* the block that starts first, and of these the one that closes first
FirstBlock(s) ==
    CHOOSE b \in FencedBlocks(s) :
        \A c \in FencedBlocks(s) : b[1] < c[1] \/ (b[1] = c[1] /\ b[3] <= c[3])

\* from the first "{" to the last "}", empty when either is absent
BraceSpan(s) ==
    LET opens == {n \in 1..Len(s) : s[n] = "{"}
        closes == {n \in 1..Len(s) : s[n] = "}"}
    IN  IF opens = {} \/ closes = {} THEN <<>>
        ELSE IF Min(opens) > Max(closes) THEN <<>>
        ELSE SubSeq(s, Min(opens), Max(closes))

(* C9: the candidate is the group of the first ```json fenced block when   *)
(* the text has one, whatever braces surround it, and the span from the    *)
(* first "{" to the last "}" only when it has none; the call raises when   *)
(* the candidate is empty, lacks a brace or is not well-formed JSON, and   *)
(* returns the candidate's object otherwise.                               *)
C9_CandidateOrder ==
    (p_pc = "returned") =>
        LET blocks == FencedBlocks(p_text)
            loaded == json_loads(p_out.json_str)
        IN  /\ blocks # {} =>
                  p_out.json_str = SubSeq(p_text, FirstBlock(p_text)[2], FirstBlock(p_text)[3])
            /\ blocks = {} /\ "{" \in Range(p_text) =>
                  p_out.json_str = BraceSpan(p_text)
            /\ ("{" \notin Range(p_out.json_str) \/ "}" \notin Range(p_out.json_str)
                   \/ "x" \in Range(p_out.json_str)) /\ "Q" \notin Range(p_out.json_str) =>
                  p_out.raised
            /\ p_out.raised = loaded.raised
            /\ ~p_out.raised => p_out.obj = loaded.obj

C9_Witness ==
    /\ p_pc = "returned"
    /\ FencedBlocks(p_text) # {}
    /\ p_out.raised
    /\ ~json_loads(BraceSpan(p_text)).raised

\* records whose analysis has made its call (or has skipped it): all that were
\* read, but the one just read while main() is about to analyse it
Position == IF pc = "crashed" THEN crashed_at ELSE pc
Analysed == IF Position = "analyze" THEN idx - 1 ELSE idx

(* C10: every record with a file name that has been analysed caused        *)
(* exactly one request; the request asks for format json exactly when      *)
(* neither flag is set and is streamed exactly when verbose is set; a      *)
(* streamed answer is the concatenation, in order, of the chunks received, *)
(* each of which was printed.                                              *)
C10_OneCallPerRow ==
    UsableInput =>
        /\ \A k \in 1..Len(infile.rows) :
              Cardinality(CallsFor(k)) =
                  IF k <= Analysed /\ ~EmptyOrMissing(k) THEN 1 ELSE 0
        /\ \A i \in 1..Len(calls) :
              /\ calls[i].stream = verbose
              /\ (calls[i].format = "json") = (~reasoning /\ ~verbose)
              /\ calls[i].format \in {"json", "none"}
        /\ (pc \in {"stream", "merge"} /\ verbose) =>
              /\ full_response = Flatten(echoed)
              /\ echoed \o stream = sent
        /\ (pc \in {"stream", "merge"} /\ ~verbose) => echoed = <<>>

C10_Witness ==
    /\ pc = "merge"
    /\ verbose
    /\ idx = 2
    /\ Len(sent) > 1
    /\ stream = <<>>
    /\ analysis_data.ok
    /\ Cardinality(CallsFor(1)) = 1

====
